---- MODULE Spec2Model ----
(***************************************************************************)
(* Model of services/ai/src/main.py: the face-extraction service.          *)
(*                                                                         *)
(* The module body initialises one FaceAnalysis model at import time and   *)
(* then two handlers are served: GET / (read_root) and POST /extract       *)
(* (extract_face).  extract_face is a coroutine: it suspends once, at      *)
(* `await file.read()`, and then decodes, calls model.get and formats the  *)
(* faces without yielding the event loop.                                  *)
(*                                                                         *)
(* Floating-point pixel coordinates are kept in fixed point (Scale units   *)
(* per pixel) so that astype(int) is a real truncation.  The external      *)
(* libraries (cv2.imdecode, FaceAnalysis.get) are deterministic functions  *)
(* of their argument, given as tables over a small set of uploads; the     *)
(* exceptions they raise are Exception subclasses (cv2.error, ValueError,  *)
(* AttributeError, onnxruntime errors), which is what `except Exception`   *)
(* catches.                                                                *)
(***************************************************************************)
EXTENDS Integers, Sequences, FiniteSets, TLC

\* ------------------------------------------------------------------ bounds
\* Number of connections that can carry a POST /extract at the same time.
NumReq == 2
\* Fixed-point resolution of the model's float coordinates (units per pixel).
Scale == 10

\* Dimension of a buffalo_l embedding ("512d vector").
EmbDim == 512

Req == 1..NumReq

None == "None"
NotSet == "NotSet"

\* ------------------------------------------------------------ data values
\* Byte strings a client can upload, named by what they contain.  "" is the
\* zero-length upload, "junk" is a non-empty stream that is no image.
Images == {"blank", "group", "sliver", "badtensor", "halfmodel"}
Bytes == {"", "junk"} \cup Images

\* An UploadFile: the bytes plus whether reading the spooled file works.
Uploads ==
    {[readable |-> TRUE, data |-> b] : b \in Bytes}
        \cup {[readable |-> FALSE, data |-> "group"]}

NoUpload == [readable |-> FALSE, data |-> None]

ReadErrMsg == "I/O operation on closed file."
CvEmptyMsg == "OpenCV(4.x) error: (-215:Assertion failed) !buf.empty() in function 'imdecode_'"
InferErrMsg == "[ONNXRuntimeError] : 2 : INVALID_ARGUMENT"
NoEmbMsg == "'NoneType' object has no attribute 'tolist'"
InvalidImageMsg == "Invalid image data"

\* A 512-d embedding (an ndarray of float32), distinguished by a seed.
Emb(seed) == [i \in 1..EmbDim |-> (seed * i) % 97]

\* Faces as FaceAnalysis returns them: bbox in fixed point (x1, y1, x2, y2),
\* det_score in hundredths.  A Face is a dict whose missing attributes read
\* as None: a face no recognition model filled in has no embedding key.
FaceA == [embedding |-> Emb(3), bbox |-> <<1005, 507, 2009, 2203>>, det_score |-> 91]
FaceB == [embedding |-> Emb(5), bbox |-> <<-37, 304, 958, 1499>>, det_score |-> 74]
FaceSliver == [embedding |-> Emb(7), bbox |-> <<102, 300, 109, 355>>, det_score |-> 52]
FaceNoEmb == [bbox |-> <<3001, 200, 3502, 801>>, det_score |-> 66]

\* ------------------------------------------------------- library functions
\* await file.read(): the bytes, or an exception from the file object.
Read(u) ==
    IF u.readable THEN [raised |-> FALSE, value |-> u.data]
    ELSE [raised |-> TRUE, msg |-> ReadErrMsg]

\* np.frombuffer(contents, np.uint8): a view of the same bytes.
FromBuffer(contents) == contents

\* cv2.imdecode(nparr, IMREAD_COLOR): the pixels, None when the buffer is
\* no image, and an assertion failure (cv2.error) on an empty buffer.
ImDecode(nparr) ==
    IF nparr = "" THEN [raised |-> TRUE, msg |-> CvEmptyMsg]
    ELSE IF nparr \in Images THEN [raised |-> FALSE, value |-> nparr]
    ELSE [raised |-> FALSE, value |-> None]

\* The fixed detector+embedder: what it finds in each image.
Detect(img) ==
    CASE img = "blank" -> [raised |-> FALSE, value |-> <<>>]
      [] img = "group" -> [raised |-> FALSE, value |-> <<FaceB, FaceA>>]
      [] img = "sliver" -> [raised |-> FALSE, value |-> <<FaceSliver>>]
      [] img = "halfmodel" -> [raised |-> FALSE, value |-> <<FaceA, FaceNoEmb>>]
      [] OTHER -> [raised |-> TRUE, msg |-> InferErrMsg]

\* ------------------------------------------------------------------- state
VARIABLES
    phase,      \* "loading" | "ready" | "failed": module-level initialisation
    running,    \* request whose coroutine holds the event loop, 0 if none
    pc,         \* position of each request's handler
    upload,     \* the `file` argument of each handler invocation
    contents,   \* local `contents`
    img,        \* local `img`
    faces,      \* local `faces`
    results,    \* local `results`
    it,         \* faces consumed by the for loop
    e,          \* local `e` of the except clause (its str())
    sent,       \* bodies returned for the current request of each connection
    rootResp    \* <<last body returned by GET />>, empty before the first

vars == <<phase, running, pc, upload, contents, img, faces, results, it, e, sent, rootResp>>

locals == <<contents, img, faces, results, it, e>>

Init ==
    /\ phase = "loading"
    /\ running = 0
    /\ pc = [r \in Req |-> "idle"]
    /\ upload = [r \in Req |-> NoUpload]
    /\ contents = [r \in Req |-> NotSet]
    /\ img = [r \in Req |-> NotSet]
    /\ faces = [r \in Req |-> <<>>]
    /\ results = [r \in Req |-> <<>>]
    /\ it = [r \in Req |-> 0]
    /\ e = [r \in Req |-> NotSet]
    /\ sent = [r \in Req |-> <<>>]
    /\ rootResp = <<>>


\* ------------------------------------------------------------- conversions
\* int() of one float coordinate as numpy does it: truncation toward zero.
TruncToInt(x) == IF x >= 0 THEN x \div Scale ELSE -((-x) \div Scale)

\* face.bbox.astype(int): elementwise truncation, no clamping.
AsTypeInt(arr) == [i \in DOMAIN arr |-> TruncToInt(arr[i])]

\* ndarray.tolist(): the same numbers as a Python list.
ToList(arr) == [i \in 1..Len(arr) |-> arr[i]]

\* float(face.det_score): widening float32 -> float64 keeps the value.
Float(x) == x

\* face.embedding.tolist() raises AttributeError when embedding is None.
CanFormat(face) == "embedding" \in DOMAIN face

\* The dict appended for one face.
Entry(face) ==
    [embedding |-> ToList(face.embedding),
     bbox |-> ToList(AsTypeInt(face.bbox)),
     det_score |-> Float(face.det_score)]

\* As if `results` were one list shared by all requests and never reset.
NewResultsShared(r) == results[CHOOSE q \in Req : q # r]

\* results = []
NewResults(r) == <<>>

\* As if the loop used results.insert(0, entry).
AppendResultFront(res, entry) == <<entry>> \o res

\* results.append(entry)
AppendResult(res, entry) == Append(res, entry)

\* As if the model kept the faces of earlier calls and returned them again.
ModelGetStateful(image) ==
    LET d == Detect(image)
        q == CHOOSE x \in Req : \A y \in Req : Len(faces[x]) >= Len(faces[y])
    IN IF d.raised THEN d ELSE [raised |-> FALSE, value |-> d.value \o faces[q]]

\* faces = model.get(img): the shared model is only read.
ModelGet(image) == Detect(image)

\* ---------------------------------------------------------- response bodies
StatusPayload == [status |-> "ok", service |-> "pis-ai"]

InvalidResponse == [error |-> InvalidImageMsg, faces |-> <<>>]

\* As if the success body carried an error key as well.
SuccessResponseWithError(res) == [error |-> None, faces |-> res]

SuccessResponse(res) == [faces |-> res]

\* As if the except clause returned what the loop had collected so far.
ErrorResponsePartial(msg, partial) == [error |-> msg, faces |-> partial]

\* The except clause's body; `partial` is what the loop had collected.
ErrorResponse(msg, partial) == [error |-> msg, faces |-> <<>>]

\* As if the application were served while the model is still loading.
ServingLazy == phase # "failed"

\* -------------------------------------------------------------- scheduling
\* Requests are routed to the handlers only once the module body, and so
\* the model initialisation in it, has run to its end.
Serving == phase = "ready"

\* As if the handler were a plain `def` run in the thread pool.
LoopFreeThreaded == TRUE

\* A suspended coroutine is resumed only when no other one is running.
LoopFree == running = 0

\* As if `await file.read()` stood before the try.
HandlerReadOutside(where) == IF where = "read" THEN "escaped" ELSE "except"

\* Where an exception raised at `where` inside the handler lands: the whole
\* body is inside try ... except Exception.
Handler(where) == "except"

\* ----------------------------------------------------------------- actions
\* model = FaceAnalysis(...); model.prepare(...) succeed.
InitOk ==
    /\ phase = "loading"
    /\ phase' = "ready"
    /\ UNCHANGED <<running, pc, upload, locals, sent, rootResp>>

\* FaceAnalysis(...) or prepare(...) raises: the import fails, nothing is
\* ever served.
InitFail ==
    /\ phase = "loading"
    /\ phase' = "failed"
    /\ UNCHANGED <<running, pc, upload, locals, sent, rootResp>>

\* GET /
read_root ==
    /\ Serving
    /\ LoopFree
    /\ rootResp' = <<StatusPayload>>
    /\ UNCHANGED <<phase, running, pc, upload, locals, sent>>

\* A POST /extract arrives on connection r (idle, or finished with its
\* previous request): a new invocation of extract_face with fresh locals is
\* started on the event loop, runs to `await file.read()` and suspends.
Accept(r, u) ==
    /\ Serving
    /\ LoopFree
    /\ pc[r] \in {"idle", "done", "escaped"}
    /\ pc' = [pc EXCEPT ![r] = "reading"]
    /\ upload' = [upload EXCEPT ![r] = u]
    /\ contents' = [contents EXCEPT ![r] = NotSet]
    /\ img' = [img EXCEPT ![r] = NotSet]
    /\ faces' = [faces EXCEPT ![r] = <<>>]
    /\ results' = [results EXCEPT ![r] = <<>>]
    /\ it' = [it EXCEPT ![r] = 0]
    /\ e' = [e EXCEPT ![r] = NotSet]
    /\ sent' = [sent EXCEPT ![r] = <<>>]
    /\ UNCHANGED <<phase, running, rootResp>>

\* An exception with text msg is raised at `where` in request r.
Raise(r, msg, where) ==
    /\ e' = [e EXCEPT ![r] = msg]
    /\ pc' = [pc EXCEPT ![r] = Handler(where)]
    /\ running' = IF Handler(where) = "except" THEN r ELSE 0

\* The read completes and the coroutine is resumed with its result.
ReadDone(r) ==
    /\ pc[r] = "reading"
    /\ LoopFree
    /\ LET rd == Read(upload[r]) IN
         IF rd.raised
         THEN /\ Raise(r, rd.msg, "read")
              /\ UNCHANGED contents
         ELSE /\ contents' = [contents EXCEPT ![r] = rd.value]
              /\ pc' = [pc EXCEPT ![r] = "decode"]
              /\ running' = r
              /\ UNCHANGED e
    /\ UNCHANGED <<phase, upload, img, faces, results, it, sent, rootResp>>

\* nparr = np.frombuffer(...); img = cv2.imdecode(...)
Decode(r) ==
    /\ pc[r] = "decode"
    /\ running = r
    /\ LET d == ImDecode(FromBuffer(contents[r])) IN
         IF d.raised
         THEN /\ Raise(r, d.msg, "decode")
              /\ UNCHANGED img
         ELSE /\ img' = [img EXCEPT ![r] = d.value]
              /\ pc' = [pc EXCEPT ![r] = "check"]
              /\ UNCHANGED <<running, e>>
    /\ UNCHANGED <<phase, upload, contents, faces, results, it, sent, rootResp>>

\* if img is None: return {"error": "Invalid image data", "faces": []}
CheckImg(r) ==
    /\ pc[r] = "check"
    /\ running = r
    /\ IF img[r] = None
       THEN /\ sent' = [sent EXCEPT ![r] = Append(@, InvalidResponse)]
            /\ pc' = [pc EXCEPT ![r] = "done"]
            /\ running' = 0
       ELSE /\ pc' = [pc EXCEPT ![r] = "infer"]
            /\ UNCHANGED <<sent, running>>
    /\ UNCHANGED <<phase, upload, locals, rootResp>>

\* model.get(img) is entered.
ModelEnter(r) ==
    /\ pc[r] = "infer"
    /\ running = r
    /\ pc' = [pc EXCEPT ![r] = "inModel"]
    /\ UNCHANGED <<phase, running, upload, locals, sent, rootResp>>

\* model.get(img) returns or raises; on return, results = [].
ModelReturn(r) ==
    /\ pc[r] = "inModel"
    /\ running = r
    /\ LET m == ModelGet(img[r]) IN
         IF m.raised
         THEN /\ Raise(r, m.msg, "infer")
              /\ UNCHANGED <<faces, results>>
         ELSE /\ faces' = [faces EXCEPT ![r] = m.value]
              /\ results' = [results EXCEPT ![r] = NewResults(r)]
              /\ pc' = [pc EXCEPT ![r] = "format"]
              /\ UNCHANGED <<running, e>>
    /\ UNCHANGED <<phase, upload, contents, img, it, sent, rootResp>>

\* One iteration of `for face in faces: results.append({...})`.
FormatFace(r) ==
    /\ pc[r] = "format"
    /\ running = r
    /\ it[r] < Len(faces[r])
    /\ LET face == faces[r][it[r] + 1] IN
         IF CanFormat(face)
         THEN /\ results' = [results EXCEPT ![r] = AppendResult(@, Entry(face))]
              /\ it' = [it EXCEPT ![r] = @ + 1]
              /\ UNCHANGED <<pc, running, e>>
         ELSE /\ Raise(r, NoEmbMsg, "format")
              /\ UNCHANGED <<results, it>>
    /\ UNCHANGED <<phase, upload, contents, img, faces, sent, rootResp>>

\* return {"faces": results}
ReturnFaces(r) ==
    /\ pc[r] = "format"
    /\ running = r
    /\ it[r] = Len(faces[r])
    /\ sent' = [sent EXCEPT ![r] = Append(@, SuccessResponse(results[r]))]
    /\ pc' = [pc EXCEPT ![r] = "done"]
    /\ running' = 0
    /\ UNCHANGED <<phase, upload, locals, rootResp>>

\* except Exception as e: return {"error": str(e), "faces": []}
ReturnError(r) ==
    /\ pc[r] = "except"
    /\ running = r
    /\ sent' = [sent EXCEPT ![r] = Append(@, ErrorResponse(e[r], results[r]))]
    /\ pc' = [pc EXCEPT ![r] = "done"]
    /\ running' = 0
    /\ UNCHANGED <<phase, upload, locals, rootResp>>

Next ==
    \/ InitOk
    \/ InitFail
    \/ read_root
    \/ \E r \in Req, u \in Uploads : Accept(r, u)
    \/ \E r \in Req : ReadDone(r)
    \/ \E r \in Req : Decode(r)
    \/ \E r \in Req : CheckImg(r)
    \/ \E r \in Req : ModelEnter(r)
    \/ \E r \in Req : ModelReturn(r)
    \/ \E r \in Req : FormatFace(r)
    \/ \E r \in Req : ReturnFaces(r)
    \/ \E r \in Req : ReturnError(r)

Spec == Init /\ [][Next]_vars

\* The steps of request r that run without yielding the event loop.
Step(r) ==
    \/ Decode(r) \/ CheckImg(r) \/ ModelEnter(r) \/ ModelReturn(r)
    \/ FormatFace(r) \/ ReturnFaces(r) \/ ReturnError(r)

\* The event loop keeps running the coroutine that holds it (the library
\* calls return), and its ready queue is first-in first-out: a coroutine
\* whose read has completed is resumed, however often others are served.
FairSpec ==
    /\ Init /\ [][Next]_vars
    /\ \A r \in Req : WF_vars(Step(r)) /\ SF_vars(ReadDone(r))

\* ---------------------------------------------------------------- helpers
Done(r) == pc[r] = "done"

\* The body of a request that has returned.
Body(r) == sent[r][1]

HasError(b) == "error" \in DOMAIN b

\* The image decodes: the bytes were read and imdecode yields pixels.
Decoded(r) == upload[r].readable /\ upload[r].data \in Images

\* The wire entry of one model face, written out field by field.
Wire(face) ==
    [embedding |-> face.embedding,
     bbox |-> <<TruncToInt(face.bbox[1]), TruncToInt(face.bbox[2]),
                TruncToInt(face.bbox[3]), TruncToInt(face.bbox[4])>>,
     det_score |-> face.det_score]

AllFormat(fs) == \A i \in 1..Len(fs) : "embedding" \in DOMAIN fs[i]

\* extract_face as a function of its upload alone.
Extract(u) ==
    IF ~u.readable THEN [error |-> ReadErrMsg, faces |-> <<>>]
    ELSE IF u.data = "" THEN [error |-> CvEmptyMsg, faces |-> <<>>]
    ELSE IF u.data \notin Images THEN [error |-> InvalidImageMsg, faces |-> <<>>]
    ELSE LET d == Detect(u.data) IN
         IF d.raised THEN [error |-> d.msg, faces |-> <<>>]
         ELSE IF ~AllFormat(d.value) THEN [error |-> NoEmbMsg, faces |-> <<>>]
         ELSE [faces |-> [i \in 1..Len(d.value) |-> Wire(d.value[i])]]

\* ------------------------------------------------------------------ claims

\* C1: every body returned by POST /extract is either a success (a faces
\* list, no error key) or an error (an error key and an empty faces list),
\* never an error with faces and never a body without faces.
C1_ResponseShape ==
    \A r \in Req : \A i \in 1..Len(sent[r]) :
        LET b == sent[r][i] IN
          \/ DOMAIN b = {"faces"}
          \/ DOMAIN b = {"error", "faces"} /\ b.faces = <<>>

\* Both shapes occur: one request answered with faces, another with an error.
C1_Witness ==
    \E r1, r2 \in Req :
        /\ Done(r1) /\ ~HasError(Body(r1)) /\ Len(Body(r1).faces) > 0
        /\ Done(r2) /\ HasError(Body(r2))

\* C2: for every byte stream that is no decodable image (zero-length
\* included) the handler returns exactly {"error": "Invalid image data",
\* "faces": []} and never enters model.get.
C2_UndecodableIsInvalidImage ==
    \A r \in Req :
        (upload[r].readable /\ upload[r].data \notin Images /\ pc[r] # "reading")
            => /\ pc[r] \notin {"infer", "inModel", "format"}
               /\ Done(r) => sent[r] = <<[error |-> InvalidImageMsg, faces |-> <<>>]>>

\* C3: when the image decodes and model.get or the formatting of a face
\* raises, the body is {"error": <the exception's text>, "faces": []}, also
\* when faces had been formatted before the exception.
C3_ExceptionGivesErrorBody ==
    \A r \in Req :
        (Done(r) /\ Decoded(r)
            /\ (Detect(upload[r].data).raised \/ ~AllFormat(Detect(upload[r].data).value)))
            => /\ sent[r] = <<[error |-> e[r], faces |-> <<>>]>>
               /\ e[r] = IF Detect(upload[r].data).raised
                         THEN Detect(upload[r].data).msg ELSE NoEmbMsg

\* A request whose second face could not be formatted, after the first was.
C3_Witness ==
    \E r \in Req :
        /\ Done(r) /\ Decoded(r)
        /\ Len(results[r]) > 0 /\ it[r] < Len(faces[r])
        /\ HasError(Body(r)) /\ Body(r).error = NoEmbMsg

\* What C4 says of a single state: no exception has left a handler; a
\* request that has ended has exactly one body, one still running has none.
NoEscape ==
    \A r \in Req :
        /\ pc[r] # "escaped"
        /\ Len(sent[r]) = IF Done(r) THEN 1 ELSE 0

\* C4: every accepted request ends with exactly one body returned by the
\* handler, and no exception raised while reading, decoding, inferring or
\* formatting ever leaves the handler.
C4_EndsWithOneBody ==
    /\ []NoEscape
    /\ \A r \in Req : (pc[r] = "reading") ~> (Done(r) /\ Len(sent[r]) = 1)

\* A request whose upload could not be read was answered with a body.
C4_Witness ==
    \E r \in Req :
        /\ Done(r) /\ ~upload[r].readable
        /\ sent[r] = <<[error |-> ReadErrMsg, faces |-> <<>>]>>

C6_ServedOnlyWhenReady ==
    /\ ((\E r \in Req : pc[r] # "idle") \/ rootResp # <<>>) => phase = "ready"
    /\ rootResp \in {<<>>, <<[status |-> "ok", service |-> "pis-ai"]>>}

\* Both endpoints have answered.
C6_Witness ==
    /\ phase = "ready"
    /\ rootResp # <<>>
    /\ \E r \in Req : Done(r)

\* C7: under every interleaving each request gets exactly one body and that
\* body is the one its own upload determines.
C7_Isolation ==
    \A r \in Req : Done(r) => sent[r] = <<Extract(upload[r])>>

\* Two requests with different valid images, both answered with faces.
C7_Witness ==
    \E r1, r2 \in Req :
        /\ r1 # r2 /\ Done(r1) /\ Done(r2)
        /\ Decoded(r1) /\ Decoded(r2) /\ upload[r1].data # upload[r2].data
        /\ ~HasError(Body(r1)) /\ Len(Body(r1).faces) > 0
        /\ ~HasError(Body(r2)) /\ Len(Body(r2).faces) > 0

\* C8: every face of a response has 512 embedding entries and 4 bbox
\* integers with x1 < x2 and y1 < y2.
C8_BoxShape ==
    \A r \in Req :
        (Done(r) /\ ~HasError(Body(r)))
            => \A i \in 1..Len(Body(r).faces) :
                 LET f == Body(r).faces[i] IN
                   /\ Len(f.embedding) = EmbDim
                   /\ Len(f.bbox) = 4
                   /\ f.bbox[1] < f.bbox[3]
                   /\ f.bbox[2] < f.bbox[4]

\* C9: two requests carrying the same bytes get the same body, whatever was
\* served before or in between.
C9_SameBytesSameBody ==
    \A r1, r2 \in Req :
        (Done(r1) /\ Done(r2) /\ upload[r1].readable /\ upload[r2].readable
            /\ upload[r1].data = upload[r2].data)
            => sent[r1] = sent[r2]

\* The same image was submitted on two connections and found faces.
C9_Witness ==
    \E r1, r2 \in Req :
        /\ r1 # r2 /\ Done(r1) /\ Done(r2)
        /\ Decoded(r1) /\ upload[r1] = upload[r2]
        /\ ~HasError(Body(r1)) /\ Len(Body(r1).faces) > 0

\* C10: at most one request is inside model.get at any time, and none is
\* past its read while another holds the event loop.
C10_OneInModel ==
    /\ Cardinality({r \in Req : pc[r] = "inModel"}) <= 1
    /\ \A r \in Req :
         pc[r] \in {"decode", "check", "infer", "inModel", "format", "except"}
             => running = r

\* One request is inside model.get while another waits for its read.
C10_Witness ==
    \E r1, r2 \in Req : pc[r1] = "inModel" /\ pc[r2] = "reading"

====
